---- MODULE Spec2Model ----
(***************************************************************************)
(* Model of the Video Color Converter conversion pipeline.                 *)
(*                                                                         *)
(* Two deployment variants exist in the repository:                        *)
(*   "windows"  video_color_converter_windows.py  (class App): the files   *)
(*              are converted one by one from a queue;                     *)
(*   "bundled"  video_color_converter_bundled_final.py                     *)
(*              (class VideoColorConverterApp): every file gets its own    *)
(*              worker thread and all of them are started together.        *)
(*                                                                         *)
(* Four specifications share the variables:                                *)
(*   Spec        the application: file list, batch submission, worker      *)
(*               threads as seen by the GUI thread, queued signals, modal  *)
(*               message boxes;                                            *)
(*   SpecFiles   the file list operations alone, started near the cap;     *)
(*   SpecWorker  one FFmpegWorker.run, line by line;                       *)
(*   SpecPreview windows: the debounced preview of the current item.       *)
(***************************************************************************)
EXTENDS Integers, Sequences, FiniteSets, TLC

VARIABLES
    variant,      \* "windows" or "bundled": which program is running
    files,        \* App.files / VideoColorConverterApp.input_files (in step with the list widget)
    output_dir,   \* App.output_dir / .output_folder ("" = not chosen)
    enabled,      \* windows: btn_start/btn_add/btn_remove/btn_output enabled
    queue,        \* windows: App.queue
    workers,      \* self.workers: references to worker threads (indices into job)
    job,          \* every FFmpegWorker ever constructed, in construction order
    events,       \* signals emitted by worker threads, queued for the GUI thread
    dialogs,      \* stack of open modal message boxes (innermost last)
    batches,      \* number of accepted submit operations
    submitted,    \* number of source files accepted over all batches
    complete,     \* number of batch-complete notifications shown
    ops,          \* number of user operations performed
    pc,           \* SpecWorker: position of the thread inside run()
    duration,     \* SpecWorker: run()'s local duration, in centiseconds
    last,         \* SpecWorker: run()'s local last
    cmd,          \* SpecWorker: the encoder command built by run()
    nread,        \* SpecWorker: diagnostic lines read so far
    exitcode,     \* SpecWorker: proc.returncode (NoCode before the process exited)
    delivered,    \* SpecWorker: signals received by the GUI thread, in order
    probed,       \* SpecWorker: what the two prober calls printed (stripped)
    lines,        \* SpecWorker: the diagnostic lines read so far, in order
    tools,        \* whether the encoder and prober executables can be launched
    batchFiles,   \* the file list as it was at the latest accepted submit
    cur,          \* windows: the list widget's current item (0 = none)
    slider,       \* s_slider.value() / sat_slider.value(), the saturation in percent
    debounce,     \* windows: the single-shot timer _debounce is active
    prev,         \* windows: every Previewer ever constructed, in construction order
    pevents,      \* windows: ready signals of Previewers, queued for the GUI thread
    label,        \* windows: what preview_label shows
    cache,        \* windows: the preview files present in the temp directory
    lastReq,      \* windows: item and saturation at the latest preview request
    bursts,       \* windows: number of times the idle timer _debounce was started
    gens          \* windows: one entry per run of update_preview_now

appVars == <<files, output_dir, enabled, queue, workers, job, batches, batchFiles,
            submitted, complete, ops>>
runVars == <<pc, duration, last, cmd, nread, exitcode, delivered, probed, lines>>
previewVars == <<cur, slider, debounce, prev, pevents, label, cache, lastReq, bursts, gens>>
vars == <<variant, tools, files, output_dir, enabled, queue, workers, job, events, dialogs,
          batches, batchFiles, submitted, complete, ops, pc, duration, last, cmd, nread,
          exitcode, delivered, probed, lines, cur, slider, debounce, prev, pevents,
          label, cache, lastReq, bursts, gens>>

----------------------------------------------------------------------------
(* Bounds of the model *)

\* user operations (add, drop, remove, choose output, start) per behaviour
MaxOps == 2
\* largest file list of an initial state of Spec
MaxInitFiles == 3
\* diagnostic lines one encoder run writes
MaxLines == 3
\* windows: worker threads constructed per behaviour (they run one at a time)
MaxJobs == 3
\* bundled: worker threads constructed per behaviour (they run together)
MaxThreads == 2
\* windows: Previewer threads constructed per behaviour
MaxPreviews == 2

(* Program constants *)

\* bundled: "if len(self.input_files) >= 20"
MaxFiles == 20

Variants == {"windows", "bundled"}

\* A source file is a positive number; a dropped file that does not end in one
\* of the video extensions is a number that is not positive.
NonVideoFiles == {0}
IsVideo(f) == f > 0

----------------------------------------------------------------------------
(* Python list helpers *)

Contains(s, x) == \E i \in 1..Len(s) : s[i] = x

\* list.remove(x): the first occurrence
RemoveAt(s, i) == [k \in 1..(Len(s) - 1) |-> IF k < i THEN s[k] ELSE s[k + 1]]

Prefix(n) == [k \in 1..n |-> k]

\* smallest file not in the list
Fresh(s) == CHOOSE f \in 1..(Len(s) + 1) : ~Contains(s, f) /\ \A g \in 1..(f - 1) : Contains(s, g)

\* What a file dialog or a drop can deliver: lists of one or two files drawn from
\* a file already listed, the two smallest files not listed, and a non-video file.
Candidates(s) ==
    LET f1 == Fresh(s)
        f2 == Fresh(Append(s, f1))
    IN  {f1, f2} \cup (IF s = <<>> THEN {} ELSE {s[1]})

Picks(c) == {<<a>> : a \in c} \cup {<<a, b>> : a \in c, b \in c}

Push(stack, d) == Append(stack, d)
Top(stack) == stack[Len(stack)]
Pop(stack) == SubSeq(stack, 1, Len(stack) - 1)

----------------------------------------------------------------------------
(* windows: the preview of the current item *)

\* positions of s_slider the user moves it to (range 0..150, 100 at start)
SliderValues == {50, 80, 100}

\* Previewer.run names its file after the md5 of the resolved path and the
\* saturation formatted with three decimals: the key is the file and the
\* saturation in thousandths.
PreviewKey(video, sat) == <<video, sat * 10>>

\* preview_label: a text, or the pixmap loaded from the file of key pix; from is
\* the Previewer whose ready signal made the label what it is (0 = none)
TextLabel(t) == [text |-> t, pix |-> <<>>, from |-> 0]

\* _debounce.setSingleShot(True): the timer is inactive after its timeout
SingleShot_Off == FALSE
SingleShot == TRUE

\* update_preview_debounced, called with current item c and slider value s:
\* the timer is (re)started for 200 ms (the text of s_label follows the slider)
update_preview_debounced(c, s) ==
    /\ debounce' = TRUE
    /\ bursts' = IF debounce THEN bursts ELSE bursts + 1
    /\ lastReq' = [video |-> c, sat |-> s]

\* the user moves the slider (it is never disabled): in windows valueChanged is
\* connected to update_preview_debounced, in bundled to a lambda that sets the
\* text of sat_label
slider_changed ==
    /\ dialogs = <<>> /\ ops < MaxOps
    /\ \E v \in SliderValues \ {slider} :
          /\ slider' = v
          /\ IF variant = "windows" THEN update_preview_debounced(cur, v)
             ELSE UNCHANGED <<debounce, bursts, lastReq>>
    /\ ops' = ops + 1
    /\ UNCHANGED <<cur, prev, pevents, label, cache, gens>>
    /\ UNCHANGED <<variant, tools, files, output_dir, enabled, queue, workers, job, events,
                   dialogs, batches, batchFiles, submitted, complete>>
    /\ UNCHANGED runVars

\* the user clicks another row: currentItemChanged is connected to
\* update_preview_debounced
select_item ==
    /\ variant = "windows"
    /\ dialogs = <<>> /\ ops < MaxOps
    /\ \E i \in 1..Len(files) :
          /\ files[i] # cur
          /\ cur' = files[i]
          /\ update_preview_debounced(files[i], slider)
    /\ ops' = ops + 1
    /\ UNCHANGED <<slider, prev, pevents, label, cache, gens>>
    /\ UNCHANGED <<variant, tools, files, output_dir, enabled, queue, workers, job, events,
                   dialogs, batches, batchFiles, submitted, complete>>
    /\ UNCHANGED runVars

\* Previewer threads: running (run() has not emitted yet), emitted (ready is
\* queued, the thread has not ended), finished, killed (terminated inside
\* subprocess.run: the encoder it spawned may live on), terminated.
NoOutcome == [exit |-> "", write |-> ""]
NewPreviewer(video, sat) ==
    [video |-> video, sat |-> sat, st |-> "running", outcome |-> NoOutcome,
     hadValid |-> FALSE, result |-> <<>>]

\* QThread.isRunning() of Previewer p
PreviewRunning(pv, p) == pv[p].st \in {"running", "emitted"}

\* Mutant: the previous thread is left running
StopPrevious_None(pv) == pv

\* "if self._preview_thread and self._preview_thread.isRunning(): terminate();
\* wait()": _preview_thread is the Previewer constructed last
StopPrevious(pv) ==
    IF pv # <<>> /\ PreviewRunning(pv, Len(pv))
    THEN [pv EXCEPT ![Len(pv)].st = IF pv[Len(pv)].st = "running" THEN "killed"
                                    ELSE "terminated"]
    ELSE pv

\* update_preview_now, the timeout of _debounce
update_preview_now ==
    /\ variant = "windows"
    /\ debounce
    /\ debounce' = ~SingleShot
    /\ IF cur = 0
       THEN /\ label' = TextLabel("Select a file to preview")
            /\ gens' = Append(gens, [req |-> lastReq, made |-> <<>>])
            /\ prev' = prev
       ELSE /\ Len(prev) < MaxPreviews
            /\ prev' = Append(StopPrevious(prev), NewPreviewer(cur, slider))
            /\ label' = TextLabel("Generating preview")
            /\ gens' = Append(gens, [req |-> lastReq, made |-> <<cur, slider>>])
    /\ UNCHANGED <<cur, slider, pevents, cache, lastReq, bursts>>
    /\ UNCHANGED <<variant, tools, events, dialogs>>
    /\ UNCHANGED appVars
    /\ UNCHANGED runVars

\* What the encoder run of a Previewer can do: exit is how subprocess.run ended
\* (code zero, another code, TimeoutExpired after 4 s, OSError), write is what
\* it did to the output file: a frame of more than 500 bytes, a file of at most
\* 500 bytes, or nothing.
PreviewOutcomes(t) ==
    IF t
    THEN {[exit |-> "zero", write |-> "valid"], [exit |-> "zero", write |-> "small"],
          [exit |-> "nonzero", write |-> "none"], [exit |-> "timeout", write |-> "none"]}
    ELSE {[exit |-> "oserror", write |-> "none"]}

\* the temp directory after an encoder run with outcome o for key k
CacheAfter(c, k, o) ==
    IF o.write = "none" THEN c
    ELSE {e \in c : e.key # k} \cup {[key |-> k, big |-> o.write = "valid"]}

\* os.path.exists(outjpg) and os.path.getsize(outjpg) > 500
ValidFile(c, k) == [key |-> k, big |-> TRUE] \in c

\* The argument of ready: "" from the except clause, otherwise the file name
\* when the file exists with more than 500 bytes, else "" (<<>> stands for "")
ReadyPath(c, k, o) ==
    IF o.exit \in {"timeout", "oserror"} THEN <<>>
    ELSE IF ValidFile(c, k) THEN k ELSE <<>>

\* Previewer.run of Previewer p: the encoder is run whatever the temp directory
\* holds, then ready is emitted once
Previewer_run ==
    /\ \E p \in 1..Len(prev) :
          /\ prev[p].st = "running"
          /\ \E o \in PreviewOutcomes(tools) :
                LET k == PreviewKey(prev[p].video, prev[p].sat)
                    c == CacheAfter(cache, k, o)
                IN  /\ cache' = c
                    /\ pevents' = Append(pevents, [p |-> p, path |-> ReadyPath(c, k, o)])
                    /\ prev' = [prev EXCEPT ![p].st = "emitted",
                                            ![p].outcome = o,
                                            ![p].hadValid = ValidFile(cache, k),
                                            ![p].result = <<ReadyPath(c, k, o)>>]
    /\ UNCHANGED <<cur, slider, debounce, label, lastReq, bursts, gens>>
    /\ UNCHANGED <<variant, tools, events, dialogs>>
    /\ UNCHANGED appVars
    /\ UNCHANGED runVars

\* run() of a Previewer has returned and the thread has ended
previewer_finished ==
    /\ \E p \in 1..Len(prev) :
          /\ prev[p].st = "emitted"
          /\ prev' = [prev EXCEPT ![p].st = "finished"]
    /\ UNCHANGED <<cur, slider, debounce, pevents, label, cache, lastReq, bursts, gens>>
    /\ UNCHANGED <<variant, tools, events, dialogs>>
    /\ UNCHANGED appVars
    /\ UNCHANGED runVars

\* The encoder of a thread that was terminated inside subprocess.run: it had
\* been spawned and ends on its own, or it had not been spawned
orphan_encoder ==
    /\ \E p \in 1..Len(prev) :
          /\ prev[p].st = "killed"
          /\ \E o \in PreviewOutcomes(tools) \cup {NoOutcome} :
                LET k == PreviewKey(prev[p].video, prev[p].sat)
                IN  /\ o.exit # "timeout"
                    /\ cache' = IF o = NoOutcome THEN cache ELSE CacheAfter(cache, k, o)
                    /\ prev' = [prev EXCEPT ![p].st = "terminated",
                                            ![p].outcome = o,
                                            ![p].hadValid = o # NoOutcome /\ ValidFile(cache, k)]
    /\ UNCHANGED <<cur, slider, debounce, pevents, label, lastReq, bursts, gens>>
    /\ UNCHANGED <<variant, tools, events, dialogs>>
    /\ UNCHANGED appVars
    /\ UNCHANGED runVars

\* _on_preview_ready(jpg_path), run by the GUI thread when a ready signal is
\* dequeued: the pixmap of the file when the path is not empty and the file
\* loads, "Preview unavailable" otherwise. The sender is not looked at.
on_preview_ready ==
    /\ pevents # <<>>
    /\ LET e == Head(pevents)
       IN  label' = IF e.path # <<>> /\ ValidFile(cache, e.path)
                    THEN [text |-> "", pix |-> e.path, from |-> e.p]
                    ELSE [text |-> "Preview unavailable", pix |-> <<>>, from |-> e.p]
    /\ pevents' = Tail(pevents)
    /\ UNCHANGED <<cur, slider, debounce, prev, cache, lastReq, bursts, gens>>
    /\ UNCHANGED <<variant, tools, events, dialogs>>
    /\ UNCHANGED appVars
    /\ UNCHANGED runVars

----------------------------------------------------------------------------
(* File list operations *)

\* bundled add_files: the loop over the dialog's result. The limit is tested
\* before membership, and reaching it shows the "Limit" box and leaves the loop.
RECURSIVE VCC_add_files(_, _)
VCC_add_files(fl, fs) ==
    IF fs = <<>> THEN [files |-> fl, limit |-> FALSE]
    ELSE IF Len(fl) >= MaxFiles THEN [files |-> fl, limit |-> TRUE]
    ELSE VCC_add_files(IF Contains(fl, Head(fs)) THEN fl ELSE Append(fl, Head(fs)),
                       Tail(fs))

\* windows add_files: the same loop without any limit
RECURSIVE App_add_files(_, _)
App_add_files(fl, fs) ==
    IF fs = <<>> THEN fl
    ELSE App_add_files(IF Contains(fl, Head(fs)) THEN fl ELSE Append(fl, Head(fs)),
                       Tail(fs))

\* bundled dropEvent: extension and membership first, then the limit; no message
RECURSIVE VCC_dropEvent(_, _)
VCC_dropEvent(fl, urls) ==
    IF urls = <<>> THEN fl
    ELSE VCC_dropEvent(
            IF IsVideo(Head(urls)) /\ ~Contains(fl, Head(urls)) /\ Len(fl) < MaxFiles
            THEN Append(fl, Head(urls)) ELSE fl,
            Tail(urls))

\* windows dropEvent: extension and membership only
RECURSIVE App_dropEvent(_, _)
App_dropEvent(fl, urls) ==
    IF urls = <<>> THEN fl
    ELSE App_dropEvent(
            IF IsVideo(Head(urls)) /\ ~Contains(fl, Head(urls))
            THEN Append(fl, Head(urls)) ELSE fl,
            Tail(urls))

\* The GUI accepts user input only while no modal box is open; the windows
\* variant also disables its buttons while a batch is running.
UserCan == dialogs = <<>> /\ ops < MaxOps
ButtonCan == UserCan /\ (variant = "windows" => enabled)

\* windows add_files and dropEvent after the loop: "if self.list.currentRow() < 0
\* and self.list.count() > 0: self.list.setCurrentRow(0)"
App_select_first(c, fl) == IF c = 0 /\ fl # <<>> THEN fl[1] ELSE c

\* the tail of windows add_files, and of dropEvent when a file was added
App_files_added(fl) ==
    /\ cur' = App_select_first(cur, fl)
    /\ update_preview_debounced(App_select_first(cur, fl), slider)
    /\ UNCHANGED <<slider, prev, pevents, label, cache, gens>>

add_files ==
    /\ ButtonCan
    /\ \E fs \in Picks(Candidates(files)) :
          IF variant = "bundled"
          THEN LET r == VCC_add_files(files, fs)
               IN  /\ files' = r.files
                   /\ dialogs' = IF r.limit THEN Push(dialogs, "limit") ELSE dialogs
                   /\ UNCHANGED previewVars
          ELSE /\ files' = App_add_files(files, fs)
               /\ dialogs' = dialogs
               /\ App_files_added(App_add_files(files, fs))
    /\ ops' = ops + 1
    /\ UNCHANGED <<variant, tools, output_dir, enabled, queue, workers, job, events,
                   batches, batchFiles, submitted, complete>>
    /\ UNCHANGED runVars

dropEvent ==
    /\ UserCan
    /\ \E urls \in Picks(Candidates(files) \cup NonVideoFiles) :
          IF variant = "bundled"
          THEN /\ files' = VCC_dropEvent(files, urls)
               /\ UNCHANGED previewVars
          ELSE /\ files' = App_dropEvent(files, urls)
               /\ IF App_dropEvent(files, urls) # files
                  THEN App_files_added(App_dropEvent(files, urls))
                  ELSE UNCHANGED previewVars
    /\ ops' = ops + 1
    /\ UNCHANGED <<variant, tools, output_dir, enabled, queue, workers, job, events, dialogs,
                   batches, batchFiles, submitted, complete>>
    /\ UNCHANGED runVars

\* row of file f in the list
RowOf(fl, f) == CHOOSE i \in 1..Len(fl) : fl[i] = f

\* The current item after takeItem removed the current row r: the item that
\* followed it, else the one before it, else none
NextCurrent(fl, r) ==
    IF Len(fl) = 1 THEN 0 ELSE IF r < Len(fl) THEN fl[r + 1] ELSE fl[r - 1]

\* remove_selected. bundled: the list widget is in single-selection mode, so at
\* most one row is selected; the file of that row is removed from the list.
\* windows: the selected row is the current item; it is removed (nothing is
\* when there is none), the current item moves on, and the handler ends with
\* update_preview_debounced.
remove_selected ==
    /\ ButtonCan
    /\ IF variant = "bundled"
       THEN /\ \E i \in 1..Len(files) : files' = RemoveAt(files, i)
            /\ UNCHANGED previewVars
       ELSE /\ files' = IF cur = 0 THEN files ELSE RemoveAt(files, RowOf(files, cur))
            /\ cur' = IF cur = 0 THEN 0 ELSE NextCurrent(files, RowOf(files, cur))
            /\ update_preview_debounced(
                    IF cur = 0 THEN 0 ELSE NextCurrent(files, RowOf(files, cur)), slider)
            /\ UNCHANGED <<slider, prev, pevents, label, cache, gens>>
    /\ ops' = ops + 1
    /\ UNCHANGED <<variant, tools, output_dir, enabled, queue, workers, job, events, dialogs,
                   batches, batchFiles, submitted, complete>>
    /\ UNCHANGED runVars

\* choose_output / select_output: a folder was picked (a cancelled dialog changes nothing)
choose_output ==
    /\ ButtonCan
    /\ output_dir' = "out"
    /\ ops' = ops + 1
    /\ UNCHANGED <<variant, tools, files, enabled, queue, workers, job, events, dialogs,
                   batches, batchFiles, submitted, complete>>
    /\ UNCHANGED runVars
    /\ UNCHANGED previewVars

----------------------------------------------------------------------------
(* Signals of a worker thread *)

\* pyqtSignal emissions. pct is the argument of progress, text and code the
\* argument of error (code holds the exit code the message was formatted with).
ProgressSig(w, p) == [w |-> w, sig |-> "progress", pct |-> p, text |-> "", code |-> <<>>]
DoneSig(w) == [w |-> w, sig |-> "done", pct |-> 0, text |-> "", code |-> <<>>]
ErrorRc(v, w, rc) ==
    [w |-> w, sig |-> "error", pct |-> 0,
     text |-> IF v = "bundled" THEN "ffmpeg rc=" ELSE "FFmpeg failed (exit code )",
     code |-> <<rc>>]
\* except Exception as e: error.emit(str(e))
ErrorExc(w, e) == [w |-> w, sig |-> "error", pct |-> 0, text |-> e, code |-> <<>>]

IsTerminal(e) == e.sig \in {"done", "error"}

\* Mutant: the non-zero branch reports success as well
ExitSignals_AlsoDone(v, w, rc) ==
    IF rc = 0 THEN <<DoneSig(w)>> ELSE <<ErrorRc(v, w, rc), DoneSig(w)>>

\* What run() emits after proc.wait(): windows sends a final progress 100 before
\* done, bundled sends finished_ok alone; a non-zero code gives error.
ExitSignals(v, w, rc) ==
    IF rc = 0
    THEN IF v = "windows" THEN <<ProgressSig(w, 100), DoneSig(w)>> ELSE <<DoneSig(w)>>
    ELSE <<ErrorRc(v, w, rc)>>

\* exit codes of the encoder process
ExitCodes == {0, 1}

----------------------------------------------------------------------------
(* Worker threads as the application sees them *)

\* Path(f).stem: the base name without its extension. Files 2k-1 and 2k have the
\* same stem (the same name in two directories, or with two extensions).
Stem(f) == (f + 1) \div 2

\* out = str(Path(output_dir) / (Path(f).stem + "_converted.mp4"))
OutputPath(dir, f) == [dir |-> dir, stem |-> Stem(f), suffix |-> "_converted.mp4"]

\* FFmpegWorker(f, out, sat), constructed while the output folder is output_dir
\* and the slider is at slider
NewWorker(f, b) ==
    [input |-> f, batch |-> b, st |-> "running", term |-> "none",
     output |-> OutputPath(output_dir, f), sat |-> slider]

\* QThread.isRunning(): true from start() until the thread has finished
isRunning(w) == job[w].st # "finished"

StillRunning(ws) == SelectSeq(ws, isRunning)

\* What one whole FFmpegWorker.run can end with: <<rc>> when the encoder process
\* exited with code rc, <<>> when an exception was caught. Neither variant tests
\* the executables before the thread is started: windows find_tool falls back to
\* the bare name and bundled to a path beside the script, so with the
\* executables missing the first subprocess.run raises in every worker.
RunOutcomes(t) == IF t THEN {<<rc>> : rc \in ExitCodes} \cup {<<>>} ELSE {<<>>}

\* One whole FFmpegWorker.run of worker w whose encoder writes no timestamp line:
\* either the process exits with some code, or an exception is caught.
FFmpegWorker_run ==
    /\ \E w \in 1..Len(job) :
          /\ job[w].st = "running"
          /\ \E out \in RunOutcomes(tools) :
                events' = events \o (IF out = <<>>
                                     THEN <<ErrorExc(w, IF tools THEN "OSError"
                                                        ELSE "FileNotFoundError")>>
                                     ELSE ExitSignals(variant, w, out[1]))
          /\ job' = [job EXCEPT ![w].st = "emitted"]
    /\ UNCHANGED <<variant, tools, files, output_dir, enabled, queue, workers, dialogs,
                   batches, batchFiles, submitted, complete, ops>>
    /\ UNCHANGED runVars
    /\ UNCHANGED previewVars

\* run() has returned and the thread has ended
thread_finished ==
    /\ \E w \in 1..Len(job) :
          /\ job[w].st = "emitted"
          /\ job' = [job EXCEPT ![w].st = "finished"]
    /\ UNCHANGED <<variant, tools, files, output_dir, enabled, queue, workers, events, dialogs,
                   batches, batchFiles, submitted, complete, ops>>
    /\ UNCHANGED runVars
    /\ UNCHANGED previewVars

\* worker.progress.connect(self.progress.setValue)
progress_setValue ==
    /\ events # <<>>
    /\ Head(events).sig = "progress"
    /\ events' = Tail(events)
    /\ UNCHANGED <<variant, tools, files, output_dir, enabled, queue, workers, job, dialogs,
                   batches, batchFiles, submitted, complete, ops>>
    /\ UNCHANGED runVars
    /\ UNCHANGED previewVars

----------------------------------------------------------------------------
(* windows: one-by-one queue *)

\* Mutant: the error handler returns without starting the next file
App_after_error_Stop(q, jb, dlg, en) ==
    /\ queue' = q /\ job' = jb /\ dialogs' = dlg /\ enabled' = en
    /\ UNCHANGED <<workers, complete>>

\* Mutant: the last file of the queue is started
App_run_next_Last(q, jb, dlg, en) ==
    IF q = <<>>
    THEN /\ enabled' = TRUE
         /\ complete' = complete + 1
         /\ dialogs' = Push(dlg, "done")
         /\ queue' = q /\ job' = jb /\ workers' = workers
    ELSE /\ queue' = SubSeq(q, 1, Len(q) - 1)
         /\ job' = Append(jb, NewWorker(q[Len(q)], batches'))
         /\ workers' = Append(workers, Len(jb) + 1)
         /\ dialogs' = dlg /\ enabled' = en
         /\ complete' = complete

\* Mutant: the next file is started and the one after it as well
App_run_next_Two(q, jb, dlg, en) ==
    IF q = <<>>
    THEN /\ enabled' = TRUE
         /\ complete' = complete + 1
         /\ dialogs' = Push(dlg, "done")
         /\ queue' = q /\ job' = jb /\ workers' = workers
    ELSE LET n == IF Len(q) >= 2 THEN 2 ELSE 1
             started == [k \in 1..n |-> NewWorker(q[k], batches')]
         IN  /\ queue' = SubSeq(q, n + 1, Len(q))
             /\ job' = jb \o started
             /\ workers' = workers \o [k \in 1..n |-> Len(jb) + k]
             /\ dialogs' = dlg /\ enabled' = en
             /\ complete' = complete

\* _run_next, entered with queue q, workers jb, open boxes dlg and buttons en.
\* Empty queue: buttons back on, status "Completed", the "Done" box.
\* Otherwise the head is popped and its worker constructed, kept and started.
App_run_next(q, jb, dlg, en) ==
    IF q = <<>>
    THEN /\ enabled' = TRUE
         /\ complete' = complete + 1
         /\ dialogs' = Push(dlg, "done")
         /\ queue' = q /\ job' = jb /\ workers' = workers
    ELSE /\ queue' = Tail(q)
         /\ job' = Append(jb, NewWorker(Head(q), batches'))
         /\ workers' = Append(workers, Len(jb) + 1)
         /\ dialogs' = dlg /\ enabled' = en
         /\ complete' = complete

\* What _worker_error does once its message box has been closed
App_after_error(q, jb, dlg, en) == App_run_next(q, jb, dlg, en)

\* Mutant: the output folder is not checked
start_queue_NoFolderCheck ==
    /\ variant = "windows"
    /\ ButtonCan
    /\ Len(job) + Len(files) <= MaxJobs
    /\ ops' = ops + 1
    /\ IF files = <<>>
       THEN /\ dialogs' = Push(dialogs, "warning")
            /\ UNCHANGED <<queue, enabled, workers, job, batches, batchFiles,
                           submitted, complete>>
       ELSE /\ batches' = batches + 1
            /\ batchFiles' = files
            /\ submitted' = submitted + Len(files)
            /\ App_run_next(files, job, dialogs, FALSE)
    /\ UNCHANGED <<variant, tools, files, output_dir, events>>
    /\ UNCHANGED runVars
    /\ UNCHANGED previewVars

\* start_queue
start_queue ==
    /\ variant = "windows"
    /\ ButtonCan
    /\ Len(job) + Len(files) <= MaxJobs
    /\ ops' = ops + 1
    /\ IF files = <<>> \/ output_dir = ""
       THEN /\ dialogs' = Push(dialogs, "warning")
            /\ UNCHANGED <<queue, enabled, workers, job, batches, batchFiles,
                           submitted, complete>>
       ELSE /\ batches' = batches + 1
            /\ batchFiles' = files
            /\ submitted' = submitted + Len(files)
            /\ App_run_next(files, job, dialogs, FALSE)
    /\ UNCHANGED <<variant, tools, files, output_dir, events>>
    /\ UNCHANGED runVars
    /\ UNCHANGED previewVars

\* _worker_done, run by the GUI thread when the done signal is dequeued
\* (done_count and current_worker are written and never read)
App_worker_done ==
    /\ variant = "windows"
    /\ events # <<>>
    /\ Head(events).sig = "done"
    /\ events' = Tail(events)
    /\ UNCHANGED <<variant, tools, files, output_dir, batches, batchFiles, submitted, ops>>
    /\ App_run_next(queue, [job EXCEPT ![Head(events).w].term = "done"], dialogs, enabled)
    /\ UNCHANGED runVars
    /\ UNCHANGED previewVars

\* _worker_error up to its message box, which stays open until it is closed
App_worker_error ==
    /\ variant = "windows"
    /\ events # <<>>
    /\ Head(events).sig = "error"
    /\ events' = Tail(events)
    /\ job' = [job EXCEPT ![Head(events).w].term = "error"]
    /\ dialogs' = Push(dialogs, "critical")
    /\ UNCHANGED <<variant, tools, files, output_dir, enabled, queue, workers,
                   batches, batchFiles, submitted, complete, ops>>
    /\ UNCHANGED runVars
    /\ UNCHANGED previewVars

----------------------------------------------------------------------------
(* bundled: all workers at once *)

\* The loop of start_conversion: one worker per file, kept and started. (The
\* lambdas connected in the loop all read the loop variable when they run, so
\* every handler is handed the last worker of the loop; the handlers use it for
\* the log line only.)
VCC_start_all(fl, jb, b) == jb \o [k \in 1..Len(fl) |-> NewWorker(fl[k], b)]

start_conversion ==
    /\ variant = "bundled"
    /\ UserCan
    /\ Len(job) + Len(files) <= MaxThreads
    /\ ops' = ops + 1
    /\ IF files = <<>> \/ output_dir = ""
       THEN /\ dialogs' = Push(dialogs, "warning")
            /\ UNCHANGED <<workers, job, batches, batchFiles, submitted>>
       ELSE /\ batches' = batches + 1
            /\ batchFiles' = files
            /\ submitted' = submitted + Len(files)
            /\ job' = VCC_start_all(files, job, batches + 1)
            /\ workers' = workers \o [k \in 1..Len(files) |-> Len(job) + k]
            /\ dialogs' = dialogs
    /\ UNCHANGED <<variant, tools, files, output_dir, enabled, queue, events, complete>>
    /\ UNCHANGED runVars
    /\ UNCHANGED previewVars

\* _on_worker_finished: drop the workers that are no longer running; when none
\* is left, status "All done" and the "Done" box.
VCC_on_worker_finished ==
    /\ variant = "bundled"
    /\ events # <<>>
    /\ Head(events).sig = "done"
    /\ events' = Tail(events)
    /\ job' = [job EXCEPT ![Head(events).w].term = "done"]
    /\ workers' = StillRunning(workers)
    /\ IF StillRunning(workers) = <<>>
       THEN complete' = complete + 1 /\ dialogs' = Push(dialogs, "done")
       ELSE complete' = complete /\ dialogs' = dialogs
    /\ UNCHANGED <<variant, tools, files, output_dir, enabled, queue, batches, batchFiles,
                   submitted, ops>>
    /\ UNCHANGED runVars
    /\ UNCHANGED previewVars

\* _on_worker_error up to its message box
VCC_on_worker_error ==
    /\ variant = "bundled"
    /\ events # <<>>
    /\ Head(events).sig = "error"
    /\ events' = Tail(events)
    /\ job' = [job EXCEPT ![Head(events).w].term = "error"]
    /\ dialogs' = Push(dialogs, "critical")
    /\ UNCHANGED <<variant, tools, files, output_dir, enabled, queue, workers,
                   batches, batchFiles, submitted, complete, ops>>
    /\ UNCHANGED runVars
    /\ UNCHANGED previewVars

----------------------------------------------------------------------------
(* Modal message boxes *)

\* The innermost message box is closed and the handler that opened it goes on:
\* windows _worker_error calls _run_next, bundled _on_worker_error drops the
\* workers that are no longer running; the other boxes end their handler.
close_dialog ==
    /\ dialogs # <<>>
    /\ UNCHANGED <<variant, tools, files, output_dir, events, batches, batchFiles, submitted, ops>>
    /\ IF Top(dialogs) = "critical" /\ variant = "windows"
       THEN App_after_error(queue, job, Pop(dialogs), enabled)
       ELSE /\ dialogs' = Pop(dialogs)
            /\ workers' = IF Top(dialogs) = "critical" THEN StillRunning(workers)
                          ELSE workers
            /\ UNCHANGED <<queue, job, enabled, complete>>
    /\ UNCHANGED runVars
    /\ UNCHANGED previewVars

----------------------------------------------------------------------------
(* FFmpegWorker.run, step by step (the worker is number 1) *)

Min(a, b) == IF a < b THEN a ELSE b
Max(a, b) == IF a > b THEN a ELSE b

\* What the prober prints for format=duration, and float() of it in centiseconds
DurationOutputs == {"", "N/A", "10.000000", "20.000000"}
IsFloat(s) == s \in {"10.000000", "20.000000"}
FloatCs(s) == IF s = "10.000000" THEN 1000 ELSE 2000

\* Text is a sequence of characters where the code looks inside it; "NL" stands
\* for the newline character.
Digits == {"0", "1", "2", "3", "4", "5", "6", "7", "8", "9"}
Whitespace == {"NL", " "}

\* str.strip(): leading and trailing whitespace removed
RECURSIVE strip(_)
strip(s) ==
    IF s = <<>> THEN s
    ELSE IF Head(s) \in Whitespace THEN strip(Tail(s))
    ELSE IF s[Len(s)] \in Whitespace THEN strip(SubSeq(s, 1, Len(s) - 1))
    ELSE s

\* str.isdigit(): not empty and every character a digit
isdigit(s) == s # <<>> /\ \A i \in 1..Len(s) : s[i] \in Digits

\* What the prober prints for stream=bit_rate: nothing (no video stream), "N/A",
\* "0" and a bit rate, each followed by a newline
BitrateOutputs ==
    {<<>>, <<"N", "/", "A", "NL">>, <<"0", "NL">>, <<"8", "0", "0", "0", "NL">>}

\* the value of a text of digits
DigitValue(c) ==
    CASE c = "0" -> 0 [] c = "1" -> 1 [] c = "2" -> 2 [] c = "3" -> 3 [] c = "4" -> 4
      [] c = "5" -> 5 [] c = "6" -> 6 [] c = "7" -> 7 [] c = "8" -> 8 [] c = "9" -> 9
RECURSIVE IntValue(_)
IntValue(s) ==
    IF s = <<>> THEN 0
    ELSE IntValue(SubSeq(s, 1, Len(s) - 1)) * 10 + DigitValue(s[Len(s)])
IsPositiveInt(s) == isdigit(s) /\ IntValue(s) > 0

\* the literal "12M"
Fallback12M == <<"1", "2", "M">>

\* self.saturation: the slider value / 100.0, kept in percent
Saturations == {0, 100}

\* One line of the encoder's diagnostic stream: <<>> when time_re does not match,
\* otherwise the groups <<hours, minutes, seconds>> with seconds in centiseconds.
LineKinds ==
    {<<>>, <<0, 0, 333>>, <<0, 0, 500>>, <<0, 0, 1000>>, <<0, 0, 2000>>, <<0, 1, 0>>}

\* t = h*3600 + mm*60 + s, in centiseconds
Elapsed(g) == (g[1] * 3600 + g[2] * 60) * 100 + g[3]

\* pct: windows max(0, min(100, int((t/duration)*100))), bundled
\* int(min(100, (t/duration)*100)); t and d are not negative, so int() is floor.
\* For the times of LineKinds and the durations of DurationOutputs the double
\* result has the integer part of the exact quotient, which is what is computed.
Percent(v, t, d) ==
    IF v = "windows" THEN Max(0, Min(100, (t * 100) \div d))
    ELSE Min(100, (t * 100) \div d)

\* vf and cmd
FilterExpr(sat) == [saturation |-> sat, format |-> IF sat <= 0 THEN "yuv420p" ELSE ""]
Command(v, sat, brOut) ==
    IF v = "bundled"
    THEN [vf |-> FilterExpr(sat), cv |-> "libx264",
          bv |-> IF strip(brOut) = <<>> \/ ~isdigit(strip(brOut)) THEN Fallback12M
                 ELSE strip(brOut),
          maxrate |-> "12M", bufsize |-> "24M", ca |-> "copy"]
    ELSE [vf |-> FilterExpr(sat), cv |-> "",
          bv |-> IF strip(brOut) = <<>> THEN Fallback12M ELSE strip(brOut),
          maxrate |-> "", bufsize |-> "", ca |-> "copy"]
NoCommand ==
    [vf |-> FilterExpr(100), cv |-> "", bv |-> <<>>, maxrate |-> "", bufsize |-> "", ca |-> ""]
NotProbed == [duration |-> "", bit_rate |-> <<>>]

\* run() from its first line to Popen: the two probes, the filter, the command.
\* The executables may be missing (subprocess.run raises); bundled calls float()
\* on any non-empty duration output, windows catches the exception of float().
run_probe ==
    /\ pc = "begin"
    /\ \E durOut \in DurationOutputs, brOut \in BitrateOutputs, sat \in Saturations :
          IF ~tools
          THEN /\ events' = Append(events, ErrorExc(1, "FileNotFoundError"))
               /\ pc' = "returned"
               /\ UNCHANGED <<duration, cmd, probed>>
          ELSE IF variant = "bundled" /\ durOut # "" /\ ~IsFloat(durOut)
          THEN /\ events' = Append(events, ErrorExc(1, "ValueError"))
               /\ pc' = "returned"
               /\ probed' = [probed EXCEPT !.duration = durOut]
               /\ UNCHANGED <<duration, cmd>>
          ELSE /\ duration' = IF IsFloat(durOut) THEN FloatCs(durOut) ELSE 0
               /\ cmd' = Command(variant, sat, brOut)
               /\ probed' = [duration |-> durOut, bit_rate |-> brOut]
               /\ pc' = "loop"
               /\ events' = events
    /\ UNCHANGED <<variant, tools, dialogs, last, nread, exitcode, delivered, lines>>
    /\ UNCHANGED appVars
    /\ UNCHANGED previewVars

\* Mutant: a value is emitted only when it is above the last one
LineSignals_Increasing(v, g, d, l) ==
    IF g # <<>> /\ d > 0 /\ Percent(v, Elapsed(g), d) > l
    THEN <<ProgressSig(1, Percent(v, Elapsed(g), d))>>
    ELSE <<>>

\* One iteration of "for line in proc.stderr": what is emitted for a line with
\* groups g, duration d and last emitted value l
LineSignals(v, g, d, l) ==
    IF g # <<>> /\ d > 0 /\ Percent(v, Elapsed(g), d) # l
    THEN <<ProgressSig(1, Percent(v, Elapsed(g), d))>>
    ELSE <<>>

run_line ==
    /\ pc = "loop"
    /\ nread < MaxLines
    /\ \E g \in LineKinds :
          LET out == LineSignals(variant, g, duration, last)
          IN  /\ events' = events \o out
              /\ last' = IF out = <<>> THEN last ELSE out[1].pct
              /\ lines' = Append(lines, g)
    /\ nread' = nread + 1
    /\ UNCHANGED <<variant, tools, dialogs, pc, duration, cmd, exitcode, delivered, probed>>
    /\ UNCHANGED appVars
    /\ UNCHANGED previewVars

\* End of the stream: proc.wait(), then the terminal signal
run_wait ==
    /\ pc = "loop"
    /\ \E rc \in ExitCodes :
          /\ exitcode' = <<rc>>
          /\ events' = events \o ExitSignals(variant, 1, rc)
    /\ pc' = "returned"
    /\ UNCHANGED <<variant, tools, dialogs, duration, last, cmd, nread, delivered,
                   probed, lines>>
    /\ UNCHANGED appVars
    /\ UNCHANGED previewVars

\* An exception raised inside the loop (reading or decoding the stream) is
\* caught by the except clause around the whole of run()
run_exception ==
    /\ pc = "loop"
    /\ events' = Append(events, ErrorExc(1, "UnicodeDecodeError"))
    /\ pc' = "returned"
    /\ UNCHANGED <<variant, tools, dialogs, duration, last, cmd, nread, exitcode, delivered,
                   probed, lines>>
    /\ UNCHANGED appVars
    /\ UNCHANGED previewVars

\* The GUI thread takes the oldest queued signal of the worker
receive ==
    /\ events # <<>>
    /\ events' = Tail(events)
    /\ delivered' = Append(delivered, Head(events))
    /\ UNCHANGED <<variant, tools, dialogs, pc, duration, last, cmd, nread, exitcode,
                   probed, lines>>
    /\ UNCHANGED appVars
    /\ UNCHANGED previewVars

----------------------------------------------------------------------------
(* Specifications *)

InitApp ==
    /\ enabled = TRUE
    /\ queue = <<>>
    /\ workers = <<>>
    /\ job = <<>>
    /\ events = <<>>
    /\ dialogs = <<>>
    /\ batches = 0
    /\ submitted = 0
    /\ complete = 0
    /\ ops = 0
    /\ batchFiles = <<>>

\* The preview right after the listed files were added: the first file is the
\* current item and the timer started by add_files has not expired yet.
InitPreview ==
    /\ cur = IF files = <<>> THEN 0 ELSE files[1]
    /\ slider = 100
    /\ debounce = (variant = "windows" /\ files # <<>>)
    /\ prev = <<>>
    /\ pevents = <<>>
    /\ label = TextLabel("Preview")
    /\ cache = {}
    /\ lastReq = [video |-> cur, sat |-> 100]
    /\ bursts = IF debounce THEN 1 ELSE 0
    /\ gens = <<>>

InitRun(p) ==
    /\ pc = p
    /\ duration = 0
    /\ last = -1
    /\ cmd = NoCommand
    /\ nread = 0
    /\ exitcode = <<>>
    /\ delivered = <<>>
    /\ probed = NotProbed
    /\ lines = <<>>

\* The application with a file list of up to MaxInitFiles files already added
\* and the output folder chosen or not.
Init ==
    /\ variant \in Variants
    /\ tools \in BOOLEAN
    /\ files \in {Prefix(n) : n \in 0..MaxInitFiles}
    /\ output_dir \in {"", "out"}
    /\ InitApp
    /\ InitRun("idle")
    /\ InitPreview

Next ==
    \/ add_files
    \/ dropEvent
    \/ remove_selected
    \/ choose_output
    \/ slider_changed
    \/ start_queue
    \/ App_worker_done
    \/ App_worker_error
    \/ start_conversion
    \/ VCC_on_worker_finished
    \/ VCC_on_worker_error
    \/ close_dialog
    \/ FFmpegWorker_run
    \/ thread_finished
    \/ progress_setValue

Spec == Init /\ [][Next]_vars

\* The file list operations, from lists at and just below the limit
InitFiles ==
    /\ variant \in Variants
    /\ tools = TRUE
    /\ files \in {Prefix(n) : n \in (MaxFiles - 2)..MaxFiles}
    /\ output_dir = ""
    /\ InitApp
    /\ InitRun("idle")
    /\ InitPreview

NextFiles ==
    \/ add_files
    \/ dropEvent
    \/ remove_selected
    \/ close_dialog

SpecFiles == InitFiles /\ [][NextFiles]_vars

\* One worker thread
InitWorker ==
    /\ variant \in Variants
    /\ tools \in BOOLEAN
    /\ files = <<>>
    /\ output_dir = ""
    /\ InitApp
    /\ InitRun("begin")
    /\ InitPreview

NextWorker ==
    \/ run_probe
    \/ run_line
    \/ run_wait
    \/ run_exception
    \/ receive

SpecWorker == InitWorker /\ [][NextWorker]_vars

\* windows: the preview of a list of one or two files; requests come from the
\* slider, from clicks on the list and from remove_selected
InitPreviewer ==
    /\ variant = "windows"
    /\ tools \in BOOLEAN
    /\ files \in {Prefix(1), Prefix(2)}
    /\ output_dir = ""
    /\ InitApp
    /\ InitRun("idle")
    /\ InitPreview

NextPreview ==
    \/ remove_selected
    \/ select_item
    \/ slider_changed
    \/ update_preview_now
    \/ Previewer_run
    \/ previewer_finished
    \/ orphan_encoder
    \/ on_preview_ready

SpecPreview == InitPreviewer /\ [][NextPreview]_vars

----------------------------------------------------------------------------
(* Properties *)

JobIds == 1..Len(job)
\* A job is Running from its start until its terminal signal has been handled
Running(w) == job[w].term = "none"
\* its encoder process (or probe) may still be alive
ProcessAlive(w) == job[w].st = "running"

\* C1: in the one-by-one variant at most one job is Running (and at most one
\* encoder process is alive), and every job but the newest one has already
\* had its terminal signal handled: job N+1 is not started before job N ended.
C1_SequentialOneAtATime ==
    variant = "windows" =>
        /\ Cardinality({w \in JobIds : Running(w)}) <= 1
        /\ Cardinality({w \in JobIds : ProcessAlive(w)}) <= 1
        /\ \A w \in JobIds : w < Len(job) => ~Running(w)

\* the second job runs after the first one failed
C1_Witness ==
    /\ variant = "windows"
    /\ Len(job) >= 2
    /\ job[1].term = "error"
    /\ Running(2) /\ ProcessAlive(2)

\* Nothing is left to happen for the submitted work: no queued signal, no open
\* box, no worker that has yet to emit its terminal signal.
Quiet == events = <<>> /\ dialogs = <<>> /\ \A w \in JobIds : ~ProcessAlive(w)

\* C2: in the one-by-one variant the batch-complete notification is shown at
\* most once per batch; when it has been shown for the latest batch, every
\* submitted file has had a job and every job has ended (done or error); and
\* the queue never stalls: once nothing is left to happen, the notification
\* has been shown for every batch.
C2_SequentialBatchCompletes ==
    variant = "windows" =>
        /\ complete <= batches
        /\ complete >= batches - 1
        /\ (complete = batches =>
                /\ queue = <<>>
                /\ Len(job) = submitted
                /\ \A w \in JobIds : ~Running(w))
        /\ (Quiet => complete = batches)

\* three jobs, the second fails, the batch completes once
C2_Witness ==
    /\ variant = "windows"
    /\ Len(job) = 3
    /\ job[1].term = "done" /\ job[2].term = "error" /\ job[3].term = "done"
    /\ batches = 1 /\ complete = 1

\* C3: in the all-at-once variant, when every job of the submitted batches has
\* ended, its terminal signal has been handled, every thread has finished and
\* nothing is left to happen, the batch-complete notification has been shown.
C3_ConcurrentCompleteDelivered ==
    (/\ variant = "bundled"
     /\ batches >= 1
     /\ Quiet
     /\ \A w \in JobIds : ~Running(w) /\ ~isRunning(w))
    => complete >= 1

\* C4: in the all-at-once variant the batch-complete notification is never
\* shown while the terminal signal of some job has not been handled yet.
C4_NoCompleteBeforeTerminals ==
    [][(variant = "bundled" /\ complete' > complete)
        => \A w \in 1..Len(job') : job'[w].term # "none"]_vars

\* C9: a submit with an empty file list or without an output folder opens the
\* "Missing info" box and changes nothing else: no worker is constructed or
\* started, and queue, kept workers, queued signals and file list stay as they are.
C9_StartRejected ==
    [][((start_queue \/ start_conversion) /\ (files = <<>> \/ output_dir = ""))
        => /\ dialogs' = Push(dialogs, "warning")
           /\ UNCHANGED <<files, queue, workers, job, events, enabled, batches>>]_vars

\* the box is open after a rejected submit
C9_Witness ==
    /\ dialogs # <<>>
    /\ Top(dialogs) = "warning"
    /\ (files = <<>> \/ output_dir = "")
    /\ batches = 0 /\ job = <<>>

\* C10: the file list never holds more than 20 files.
C10_FileCap == Len(files) <= MaxFiles

\* failures surfaced so far: error signals queued or handled
Failures ==
    Cardinality({i \in 1..Len(events) : events[i].sig = "error"})
        + Cardinality({w \in JobIds : job[w].term = "error"})

\* C13: when the encoder or prober executable cannot be found, a submitted
\* batch starts no per-file job and the failure is surfaced once for the whole
\* batch, not once per file.
C13_ToolMissingOnce ==
    ~tools => (job = <<>> /\ Failures <= batches)

\* jobs of the latest batch, in the order they were started
BatchInputs ==
    LET js == SelectSeq(job, LAMBDA w : w.batch = batches)
    IN  [i \in 1..Len(js) |-> js[i].input]

\* C19: in the one-by-one variant the files of the jobs started for a batch,
\* followed by the files still queued, are the file list as it was at submit
\* time: the jobs start in list order, a file leaves the queue when its job
\* starts, no file is started twice or queued again after a failure, and
\* changes of the file list during the batch do not reach the queue.
C19_QueueOrder ==
    (variant = "windows" /\ batches >= 1) => BatchInputs \o queue = batchFiles

\* the second job of a batch runs after the first one failed, one file is still
\* queued, and a file was dropped on the list after the submit
C19_Witness ==
    /\ variant = "windows"
    /\ batches = 1
    /\ Len(job) = 2 /\ job[1].term = "error" /\ Running(2)
    /\ Len(queue) = 1
    /\ files # batchFiles

----------------------------------------------------------------------------
(* Properties of one worker *)

\* everything the worker has emitted so far, in order
Sent == delivered \o events
ProgressAt(s) == {i \in 1..Len(s) : s[i].sig = "progress"}

\* C5: the progress values received from one job never decrease.
C5_ProgressNeverDecreases ==
    \A i, j \in ProgressAt(delivered) : i < j => delivered[i].pct <= delivered[j].pct

\* C6: no progress value is received twice from one job.
C6_ProgressNeverRepeats ==
    \A i, j \in ProgressAt(delivered) : i < j => delivered[i].pct # delivered[j].pct

\* C7: when the success signal of a job is received, a progress signal with
\* value 100 has been received before it.
C7_HundredBeforeSuccess ==
    \A j \in 1..Len(delivered) :
        delivered[j].sig = "done" =>
            \E i \in 1..(j - 1) : delivered[i].sig = "progress" /\ delivered[i].pct = 100

\* C8: a job emits at most one terminal signal, nothing after it, and exactly
\* one once run() has returned; after the process exited, code 0 gives done and
\* any other code gives error with that code in the message.
C8_ExactlyOneTerminal ==
    LET T == {i \in 1..Len(Sent) : IsTerminal(Sent[i])}
    IN  /\ Cardinality(T) <= 1
        /\ \A i \in T : i = Len(Sent) /\ pc = "returned"
        /\ (pc = "returned" => Cardinality(T) = 1)
        /\ (exitcode # <<>> =>
                /\ pc = "returned"
                /\ LET e == Sent[Len(Sent)]
                   IN  IF exitcode[1] = 0 THEN e.sig = "done"
                       ELSE e.sig = "error" /\ e.code = exitcode)

\* a failed encoder run whose error signal has been received
C8_Witness ==
    /\ pc = "returned"
    /\ exitcode = <<1>>
    /\ events = <<>>
    /\ delivered # <<>>
    /\ delivered[Len(delivered)].sig = "error"
    /\ delivered[Len(delivered)].code = <<1>>

\* values of the progress signals of a sequence of signals, in order
PctSeq(s) ==
    LET ps == SelectSeq(s, LAMBDA e : e.sig = "progress")
    IN  [i \in 1..Len(ps) |-> ps[i].pct]

\* consecutive equal values collapsed into one
RECURSIVE Collapse(_)
Collapse(s) ==
    IF Len(s) <= 1 THEN s
    ELSE LET c == Collapse(SubSeq(s, 1, Len(s) - 1))
         IN  IF c[Len(c)] = s[Len(s)] THEN c ELSE Append(c, s[Len(s)])

\* clamp(0, 100, floor(elapsed / duration * 100)) of every line read that holds
\* a time token, in order
LinePercents ==
    LET timed == SelectSeq(lines, LAMBDA g : g # <<>>)
    IN  [i \in 1..Len(timed) |-> Max(0, Min(100, (Elapsed(timed[i]) * 100) \div duration))]

\* C18: the percent values run() emits while it reads the diagnostic stream are
\* the clamped floor percentages of the lines that hold a time token, in order,
\* with consecutive equal values collapsed; lines without a token emit nothing,
\* and with duration 0 no line emits anything. (After a zero exit code the
\* windows variant adds its final 100, which belongs to no line.)
C18_PercentSequence ==
    PctSeq(Sent) =
        (IF duration > 0 THEN Collapse(LinePercents) ELSE <<>>)
            \o (IF variant = "windows" /\ exitcode = <<0>> THEN <<100>> ELSE <<>>)

\* a repeated value collapsed and an elapsed time beyond the duration clamped
\* to 100
C18_Witness ==
    /\ pc = "loop"
    /\ duration = 1000
    /\ lines = << <<0, 0, 500>>, <<0, 0, 500>>, <<0, 1, 0>> >>
    /\ PctSeq(Sent) = <<50, 100>>

\* C11: the bit rate given to the encoder is the prober's value when that is a
\* well-formed positive integer, and the fallback 12M when it is empty, not a
\* number, or not a positive integer.
C11_BitratePolicy ==
    cmd # NoCommand =>
        cmd.bv = IF IsPositiveInt(strip(probed.bit_rate)) THEN strip(probed.bit_rate)
                 ELSE Fallback12M

\* C12: with the executables present, whatever the prober prints, run() gets
\* past the probes: the encoder command is built and launched, with duration 0
\* when the duration output is empty or not a number.
C12_ProbeNeverFails ==
    (tools /\ pc # "begin") =>
        /\ cmd # NoCommand
        /\ duration = IF IsFloat(probed.duration) THEN FloatCs(probed.duration) ELSE 0

----------------------------------------------------------------------------
(* Properties of the preview *)

PreviewIds == 1..Len(prev)

\* C14: every burst of preview requests (requests that each arrive before the
\* timer started by the one before has expired) ends in exactly one run of
\* update_preview_now, and that run starts exactly one preview generation,
\* with the item and saturation of the latest request of the burst (none when
\* that request left no item current).
C14_OneGenerationPerBurst ==
    /\ Len(gens) = (IF debounce THEN bursts - 1 ELSE bursts)
    /\ \A i \in 1..Len(gens) :
          gens[i].made = IF gens[i].req.video = 0 THEN <<>>
                         ELSE <<gens[i].req.video, gens[i].req.sat>>
    /\ Len(prev) = Cardinality({i \in 1..Len(gens) : gens[i].made # <<>>})
    /\ (debounce => lastReq = [video |-> cur, sat |-> slider])

\* the slider went to 0.50 and then to 0.80 before the timer expired: one
\* generation, at 0.80
C14_Witness ==
    /\ ops = 2 /\ bursts = 1 /\ ~debounce
    /\ Len(gens) = 1 /\ Len(prev) = 1
    /\ prev[1].sat = 80 /\ prev[1].video = cur

\* C15: once a newer preview generation has been started, the label never shows
\* the result (image or "unavailable") of an earlier Previewer.
C15_SupersededDiscarded ==
    label.from \in {0, Len(prev)}

\* C16: the encoder is not run for a preview whose file is already in the temp
\* directory with more than 500 bytes.
C16_CachedNotRegenerated ==
    \A p \in PreviewIds : prev[p].outcome # NoOutcome => ~prev[p].hadValid

\* C17: a preview generation whose encoder timed out, exited with a non-zero
\* code or could not be run reports "unavailable" (the empty path), whatever
\* the temp directory holds; a Previewer reports at most one result, and
\* exactly one when it was not stopped first.
C17_FailureUnavailable ==
    \A p \in PreviewIds :
        /\ Len(prev[p].result) <= 1
        /\ (prev[p].st \in {"emitted", "finished"} => Len(prev[p].result) = 1)
        /\ (prev[p].result # <<>> /\ prev[p].outcome.exit \in {"nonzero", "timeout", "oserror"}
                => prev[p].result[1] = <<>>)

\* C20: at most one Previewer thread is running, and it is the one constructed
\* last: every earlier one had finished or been terminated and joined before
\* the next one was started.
C20_OnePreviewWorker ==
    /\ Cardinality({p \in PreviewIds : PreviewRunning(prev, p)}) <= 1
    /\ \A p \in PreviewIds : p < Len(prev) => ~PreviewRunning(prev, p)

\* a Previewer that was terminated while it ran, and its successor running
C20_Witness ==
    /\ Len(prev) = 2
    /\ prev[1].st \in {"killed", "terminated"}
    /\ prev[2].st = "running"

----------------------------------------------------------------------------
(* Properties of concurrent batches *)

\* C21: in the all-at-once variant the batch-complete notification is shown at
\* most once for each submitted batch.
C21_ConcurrentCompleteOnce ==
    variant = "bundled" => complete <= batches

\* C22: no two jobs whose encoder processes are alive at the same time have
\* the same destination path.
C22_DistinctDestinations ==
    \A v, w \in JobIds :
        (v # w /\ ProcessAlive(v) /\ ProcessAlive(w)) => job[v].output # job[w].output

\* C23: every job of a batch is run with the saturation the slider showed when
\* the batch was submitted (the first job of a batch is constructed by the
\* submit handler itself, so this is the saturation of that job).
C23_SaturationAtSubmit ==
    \A v, w \in JobIds : job[v].batch = job[w].batch => job[v].sat = job[w].sat

====
